---- MODULE Spec2Model ----
(***************************************************************************)
(* Token management of schwabdev: the Tokens manager of tokens.py (with    *)
(* and without the LockFile primitive), the Tokens manager of api.py that  *)
(* Client instantiates, the shared tokens file, the cross-process lock and *)
(* the background checker thread.                                          *)
(*                                                                         *)
(* A manager instance lives in one process; several processes share one    *)
(* tokens file.  Every thread of a process is a pair <<p, r>>: r = "c1",   *)
(* "c2" are threads of the embedding application that call the manager,    *)
(* "l1", "l2" are the checker threads spawned by update_tokens_auto()      *)
(* called from "c1", "c2".  One step of a thread is one action; steps of   *)
(* different threads interleave freely.                                    *)
(***************************************************************************)
EXTENDS Integers, Sequences, FiniteSets, TLC

\* ------------------------------------------------------------- constants
ACCESS_LIFE_SECONDS == 1800
REFRESH_LIFE_DAYS == 11
DaySeconds == 86400
ApiAccessLife == 1800
ApiRefreshDays == 7
TokenUsable == 60
RefreshAttempts == 3
WarningRepeats == 3

\* None, for a secret / identity token / payload field, and for Token.issued
NoneTok == 0
NoneTime == -99999999

\* ---------------------------------------------------------------- bounds
MaxPosts == 2        \* token-endpoint POSTs in one behaviour
MaxLoopPosts == 3    \* the same, where the retries of a refresh are exhausted
MaxRetryPosts == 4   \* the same, where an exhausted refresh is tried again
MaxCalls == 2        \* manager operations the application starts in one behaviour
MaxTime == 120       \* the clock stops here

Procs == {1, 2}
Callers == {"c1", "c2"}
Loops == {"l1", "l2"}
Roles == Callers \cup Loops
Threads == Procs \X Roles
NoThread == <<0, "none">>

ProcOf(t) == t[1]
IsLoop(t) == t[2] \in Loops
\* the checker thread that update_tokens_auto(), called from t, creates
LoopOf(t) == <<t[1], IF t[2] = "c1" THEN "l1" ELSE "l2">>

\* the secrets the provider hands out: two are enough to tell "the same"
\* from "another"
Secrets == {1, 2}
ExpiresInVals == {0, 30, 1800}        \* 0: the field is absent

VARIABLES
    now,        \* datetime.now() / the clock, in seconds
    cfg,        \* per process: [kind, auto, inter] (constructor arguments)
    mem,        \* per process: the in-memory pair [at, ai, al, rt, ri, rl, id]
    tokThread,  \* per process: self._token_thread (NoThread: None)
    file,       \* the tokens file [fmt, td, ai, ri]
    lock,       \* holder of LockFile(tokens_file), or NoThread
    pc,         \* per thread: where it is
    loc,        \* per thread: the locals of the guarded function it is in
    top,        \* per thread: the operation the application called
    res,        \* per thread: how the last finished operation ended
    first,      \* per checker thread: the Event `first` is set
    wake,       \* per checker thread: when time.sleep() ends
    obs         \* observations (history), see ObsInit

vars == <<now, cfg, mem, tokThread, file, lock, pc, loc, top, res, first,
          wake, obs>>

\* ------------------------------------------------------------ Token class
\* Token.__init__: a lifetime of 0 raises ValueError; the lifetimes of the
\* tokens examined on their own
TokenLifetimes == {1, TokenUsable, TokenUsable + 30, ACCESS_LIFE_SECONDS}

\* (variant: a setter that leaves the issue time alone)
IssuedBySetter_Kept(old) == old
\* Token.token setter: self.issued = datetime.now()
IssuedBySetter(old) == now

\* Token.expires: (datetime.now() - self.issued) raises TypeError when issued
\* is None
AgeError(issued) == IF issued = NoneTime THEN "TypeError" ELSE "none"
\* (variant: a remaining time that stops at 0)
Expires_Clamped(issued, lifetime) ==
    IF AgeError(issued) = "TypeError" \/ lifetime - (now - issued) < 0 THEN 0
    ELSE lifetime - (now - issued)
\* Token.expires: try: return lifetime - age; except TypeError: return 0
Expires(issued, lifetime) ==
    IF AgeError(issued) = "TypeError" THEN 0 ELSE lifetime - (now - issued)
\* Token.expires ends with an exception: one that the except does not catch
ExpiresRaises(issued) == AgeError(issued) \notin {"none", "TypeError"}

AccessExpires(m) == Expires(m.ai, m.al)
RefreshExpires(m) == Expires(m.ri, m.rl)

\* Tokens.__init__: the two Token objects before any load
FreshMem(kind) ==
    [at |-> NoneTok, ai |-> NoneTime,
     al |-> IF kind = "api" THEN ApiAccessLife ELSE ACCESS_LIFE_SECONDS,
     rt |-> NoneTok, ri |-> NoneTime,
     rl |-> IF kind = "api" THEN ApiRefreshDays * DaySeconds
                            ELSE REFRESH_LIFE_DAYS * DaySeconds,
     id |-> NoneTok]

\* ------------------------------------------------------------ tokens file
\* fmt: "empty"   no file, an empty file or invalid JSON
\*      "no_td"   JSON without token_dictionary
\*      "bad_ai"  access_token_issued missing or malformed
\*      "bad_ri"  refresh_token_issued missing or malformed
\*      "ok"      a well-formed file
\* td: the provider's payload as a JSON object: access_token, refresh_token,
\* expires_in, id_token, and a field the manager does not know (extra); a
\* field that is absent reads None (0 for expires_in) through .get
NoPayload == [at |-> NoneTok, rt |-> NoneTok, ei |-> 0, id |-> NoneTok,
              extra |-> NoneTok]

\* (variant: a time written to the minute)
IsoFormat_Minutes(x) ==
    <<x \div DaySeconds, (x % DaySeconds) \div 3600, (x % 3600) \div 60, 0>>
\* datetime.isoformat(): the time as the text of its date and its hours,
\* minutes and seconds
IsoFormat(x) ==
    <<x \div DaySeconds, (x % DaySeconds) \div 3600, (x % 3600) \div 60, x % 60>>
\* datetime.fromisoformat()
FromIsoFormat(s) == s[1] * DaySeconds + s[2] * 3600 + s[3] * 60 + s[4]
\* no text: the key is missing from the file
NoIso == << >>

EmptyFile == [fmt |-> "empty", td |-> NoPayload, ai |-> NoIso, ri |-> NoIso]

\* Tokens._read_tokens_file applied to the in-memory pair m: the statements
\* run in order until one raises; [ok, mem]
SetLifetime(m, f) == [m EXCEPT !.al = IF f.td.ei = 0 THEN @ ELSE f.td.ei]
SetAccessToken(m, f) == [m EXCEPT !.at = f.td.at, !.ai = IssuedBySetter(@)]
SetAccessIssued(m, f) == [m EXCEPT !.ai = FromIsoFormat(f.ai)]
SetRefreshToken(m, f) == [m EXCEPT !.rt = f.td.rt, !.ri = IssuedBySetter(@)]
SetRefreshIssued(m, f) == [m EXCEPT !.ri = FromIsoFormat(f.ri)]
SetIdToken(m, f) == [m EXCEPT !.id = f.td.id]

ReadTokensFile(m, f) ==
    CASE f.fmt \in {"empty", "no_td"} -> [ok |-> FALSE, mem |-> m]
      [] f.fmt = "bad_ai" ->
            [ok |-> FALSE, mem |-> SetAccessToken(SetLifetime(m, f), f)]
      [] f.fmt = "bad_ri" ->
            [ok |-> FALSE,
             mem |-> SetRefreshToken(SetAccessIssued(
                        SetAccessToken(SetLifetime(m, f), f), f), f)]
      [] OTHER ->
            [ok |-> TRUE,
             mem |-> SetIdToken(SetRefreshIssued(SetRefreshToken(SetAccessIssued(
                        SetAccessToken(SetLifetime(m, f), f), f), f), f), f)]

\* (variant: a check that compares the access secret only)
TokensUnchanged_AccessOnly(m, f) ==
    LET r == ReadTokensFile(m, f) IN
    [unchanged |-> (~r.ok) \/ m.at = r.mem.at, mem |-> r.mem]

\* Tokens._tokens_unchanged: [unchanged, mem]
TokensUnchanged(m, f) ==
    LET r == ReadTokensFile(m, f) IN
    [unchanged |-> (~r.ok) \/ (m.at = r.mem.at /\ m.rt = r.mem.rt),
     mem |-> r.mem]

\* Tokens._write_tokens_file, after open(..., 'w') has truncated the file:
\* the dictionary is built from the in-memory issue times (isoformat of None
\* raises, and the error is swallowed with the file left empty)
WrittenFile(m, payload) ==
    IF m.ai = NoneTime \/ m.ri = NoneTime THEN EmptyFile
    ELSE [fmt |-> "ok", td |-> payload,
          ai |-> IsoFormat(m.ai), ri |-> IsoFormat(m.ri)]

\* ------------------------------------------------------------ token endpoint
\* a 2xx response of the provider: the JSON payload (a field that is absent
\* reads None through .get)
OkResponses ==
    [at : Secrets, rt : {NoneTok} \cup Secrets, ei : ExpiresInVals,
     id : {NoneTok, 1}, extra : {NoneTok, 1}]
\* the provider of the usual case: expires_in and id_token are always there;
\* against the stored pair (1, 1) it issues another access secret with the
\* same refresh secret, or the same access secret with another refresh secret
PlainResponses ==
    {r \in OkResponses : /\ r.ei = ACCESS_LIFE_SECONDS /\ r.id = 1
                         /\ r.extra = NoneTok
                         /\ <<r.at, r.rt>> \in {<<2, 1>>, <<1, 2>>}}
NoResp == NoPayload

\* ------------------------------------------------------------ thread locals
\* fn: the guarded function ("uat": _update_access_token, "art":
\* acquire_refresh_token); via: its caller ("direct": the application, "ut1",
\* "ut2": the first and the second step of update_tokens); att: i of
\* "for i in range(3)"; resp: the payload of the 2xx response in hand
IdleLoc == [fn |-> "none", via |-> "direct", att |-> 0, resp |-> NoResp,
            url |-> << >>, code |-> << >>]

\* ------------------------------------------------------------ observations
NoCheck == [done |-> FALSE, readok |-> FALSE, rdiff |-> FALSE, adiff |-> FALSE,
            after |-> {}]
NoStart == [fn |-> "none", at |-> NoneTok, rt |-> NoneTok, pending |-> {}]
\* the last 2xx response a thread received: the function, the payload, the
\* time, the in-memory pair it was applied to, and the refresh_token_issued
\* the file then held
NoExchange == [fn |-> "none", resp |-> NoResp, at |-> 0,
               before |-> FreshMem("locked"), fri |-> NoIso]
Exchange(f, r, m) ==
    [fn |-> f, resp |-> r, at |-> now, before |-> m, fri |-> file.ri]
\* the in-memory pair and the file when a call of _update_access_token made
\* its first POST
NoFirst == [ok |-> FALSE, mem |-> FreshMem("locked"), file |-> EmptyFile]
First(m) == [ok |-> TRUE, mem |-> m, file |-> file]
\* one call of update_tokens: rlow, alow0: the refresh token expires in less
\* than 1 s, the access token in less than the usable time, when the call
\* begins; warns: the warnings printed; art, uat: the guarded functions it
\* called; reached: it came to its access check; alow: what that check found
\* the last write of the file that went through, while the file is as that
\* write left it: the payload passed to _write_tokens_file, and the issue
\* times in memory when it was called
NoWrite == [ok |-> FALSE, payload |-> NoPayload, ai |-> NoneTime, ri |-> NoneTime]
\* a Token examined on its own: the last assignment of a secret (the value,
\* the time, the number of the operation) and the last evaluation of expires
\* (the result, and the issue time, lifetime and time it was computed from)
NoAssign == [done |-> FALSE, value |-> NoneTok, at |-> 0, n |-> 0]
NoExpires == [done |-> FALSE, raised |-> FALSE, value |-> 0, issued |-> NoneTime,
              lifetime |-> 0, at |-> 0, n |-> 0]
\* the tokens a process took from a 2xx response and could not write to the
\* file, until its next 2xx response
NoUnsaved == [ok |-> FALSE, at |-> NoneTok, rt |-> NoneTok]
Unsaved(m) == [ok |-> TRUE, at |-> m.at, rt |-> m.rt]
NoCycle == [rlow |-> FALSE, alow0 |-> FALSE, warns |-> 0, art |-> FALSE,
            reached |-> FALSE, alow |-> FALSE, uat |-> FALSE]
ObsInit ==
    [nposts  |-> 0,                          \* POSTs to the token endpoint
     posts   |-> [t \in Threads |-> 0],      \* POSTs of the last guarded call
     calls   |-> 0,                          \* operations started
     start   |-> [t \in Threads |-> NoStart],\* the last guarded call: the
                                             \* function, the secrets at entry,
                                             \* the threads then inside a call
     chk     |-> [t \in Threads |-> NoCheck],\* its still-current check, and
                                             \* the threads checked before it
     ran     |-> [t \in Threads |-> FALSE],  \* its body was entered
     wrote   |-> [t \in Threads |-> "no"],   \* it truncated ("trunc") and
                                             \* wrote ("saved") the file
     cycles  |-> [t \in Threads |-> 0],      \* update_tokens calls of a
                                             \* checker (0, 1, 2: two or more)
     raised  |-> [t \in Threads |-> FALSE],  \* a cycle of the checker raised
     cyc     |-> [t \in Threads |-> NoCycle],\* the last call of update_tokens
     xch     |-> [t \in Threads |-> NoExchange],
     lastw   |-> NoWrite,
     unsaved |-> [p \in Procs |-> NoUnsaved],
     recreated |-> [p \in Procs |-> FALSE], \* __init__ recreated the file
     prevx   |-> [t \in Threads |-> FALSE], \* the cycle before this one ended
                                             \* with the retries exhausted
     lacks   |-> [t \in Threads |-> FALSE], \* the URL pasted in this call has
                                             \* no 'code=' or no '%40'
     att0    |-> [t \in Threads |-> NoFirst], \* the state at the first POST
                                             \* of a call that got no 2xx yet
     cut     |-> [t \in Threads |-> FALSE], \* the save of this call truncated
                                             \* a well-formed file
     emptied |-> FALSE,                      \* ... when it was well-formed
     asg     |-> NoAssign,
     exp     |-> NoExpires,
     delays  |-> [t \in Threads |-> << >>],  \* the sleeps of the last guarded
                                             \* call, in seconds
     late    |-> [t \in Threads |-> FALSE],  \* update_tokens_auto called after
                                             \* an earlier call had returned
     waited  |-> [t \in Threads |-> FALSE],  \* first.wait() has returned
     autoDone |-> [p \in Procs |-> FALSE],   \* an update_tokens_auto returned
     spawned |-> [p \in Procs |-> 0],        \* checker threads created
     nolock  |-> FALSE]                      \* the file was touched unlocked

Kind(t) == cfg[ProcOf(t)].kind
\* (variant: the locking wrapper whether or not LockFile was imported)
HasLock_Always(t) == TRUE
\* LockFile was imported (tokens.py): DoLocked is the locking wrapper
HasLock(t) == Kind(t) = "locked"
\* the file is touched by t, which does not hold the lock its manager has
Unlocked(t) == HasLock(t) /\ lock # t

\* ------------------------------------------------- returning to the caller
\* Where thread t continues when the guarded function it is in ends with
\* exception e ("none": it returns).  Inside update_tokens, step 1 falls
\* through to step 2; an exception leaves update_tokens.  The checker catches
\* the exception and goes on to first.set(); an application thread gets the
\* result.
LeavesOperation(t, e) == e # "none" \/ loc[t].via # "ut1"
\* (variant: a checker that ends with the first exception)
NextPc_EndsOnError(t, e) ==
    IF ~LeavesOperation(t, e) THEN "ut_access"
    ELSE IF IsLoop(t) THEN (IF e = "none" THEN "ck_set" ELSE "ended") ELSE "idle"
NextPc(t, e) ==
    IF ~LeavesOperation(t, e) THEN "ut_access"
    ELSE IF IsLoop(t) THEN "ck_set" ELSE "idle"
\* (variant: a wrapper that swallows the exception of the function)
NextRes_Swallowed(t, e) ==
    IF LeavesOperation(t, e) THEN [res EXCEPT ![t] = "ok"] ELSE res
NextRes(t, e) ==
    IF LeavesOperation(t, e) THEN [res EXCEPT ![t] = IF e = "none" THEN "ok" ELSE e]
    ELSE res

\* (variant: a lock that stays held when the function raises)
LockAfterExit_KeptOnError(t, e) == IF lock = t /\ e = "none" THEN NoThread ELSE lock
\* with self._lock: leaving the with-statement, by return or by exception e:
\* the holder of the lock afterwards
LockAfterExit(t, e) == IF lock = t THEN NoThread ELSE lock

\* the guarded function ends with e: the with-statement of DoLocked releases
\* the lock, and the caller goes on
ExitBody(t, e) ==
    /\ pc' = [pc EXCEPT ![t] = NextPc(t, e)]
    /\ res' = NextRes(t, e)
    /\ loc' = [loc EXCEPT ![t] = IdleLoc]
    /\ lock' = LockAfterExit(t, e)

\* the positions inside a guarded function, and inside a guarded call
BodyPcs == {"uat_post", "art_input", "art_post", "wr_open", "wr_dump"}
CallPcs == BodyPcs \cup {"dl_enter"}

\* a call of a guarded function f by v
BodyStart(f) == IF f = "art" THEN "art_input" ELSE "uat_post"
Enter(t, f, v) ==
    /\ pc' = [pc EXCEPT ![t] = IF HasLock(t) THEN "dl_enter" ELSE BodyStart(f)]
    /\ loc' = [loc EXCEPT ![t] = [IdleLoc EXCEPT !.fn = f, !.via = v]]
ObsEnter(o, t, f) ==
    [o EXCEPT !.start[t] = [fn |-> f, at |-> mem[ProcOf(t)].at,
                            rt |-> mem[ProcOf(t)].rt,
                            pending |-> {x \in Threads : pc[x] \in CallPcs}],
              !.posts[t] = 0, !.ran[t] = FALSE, !.wrote[t] = "no",
              !.chk[t] = NoCheck, !.delays[t] = << >>, !.xch[t] = NoExchange,
              !.lacks[t] = FALSE, !.att0[t] = NoFirst, !.cut[t] = FALSE]

\* ------------------------------------------------------------ construction
\* Tokens.__init__: self._read_tokens_file() in try
Construct(t) ==
    /\ pc[t] = "new"
    /\ LET r == ReadTokensFile(FreshMem(Kind(t)), file) IN
       /\ mem' = [mem EXCEPT ![ProcOf(t)] = r.mem]
       /\ pc' = [pc EXCEPT ![t] = IF r.ok THEN "idle" ELSE "init_trunc"]
    /\ obs' = [obs EXCEPT !.nolock = @ \/ Unlocked(t)]
    /\ UNCHANGED <<now, cfg, tokThread, file, lock, loc, top, res, first, wake>>

\* Tokens.__init__: except: open(self._tokens_file, 'w').close()
ConstructRecreate(t) ==
    /\ pc[t] = "init_trunc"
    /\ file' = EmptyFile
    /\ pc' = [pc EXCEPT ![t] = "idle"]
    /\ obs' = [obs EXCEPT !.nolock = @ \/ Unlocked(t), !.lastw = NoWrite,
                          !.recreated[ProcOf(t)] = TRUE,
                          !.emptied = @ \/ file.fmt = "ok"]
    /\ UNCHANGED <<now, cfg, mem, tokThread, lock, loc, top, res, first, wake>>

\* ---------------------------------------- operations the application calls
StartCall(t, op, budget) ==
    /\ pc[t] = "idle"
    /\ ~IsLoop(t)
    /\ obs.calls < budget
    /\ top' = [top EXCEPT ![t] = op]
    /\ res' = [res EXCEPT ![t] = "running"]

\* acquire_refresh_token() (Client.update_tokens_force)
CallAcquire(t, budget) ==
    /\ StartCall(t, "art", budget)
    /\ Enter(t, "art", "direct")
    /\ obs' = ObsEnter([obs EXCEPT !.calls = @ + 1], t, "art")
    /\ UNCHANGED <<now, cfg, mem, tokThread, file, lock, first, wake>>

\* _update_access_token()
CallRefresh(t, budget) ==
    /\ StartCall(t, "uat", budget)
    /\ Enter(t, "uat", "direct")
    /\ obs' = ObsEnter([obs EXCEPT !.calls = @ + 1], t, "uat")
    /\ UNCHANGED <<now, cfg, mem, tokThread, file, lock, first, wake>>

\* update_tokens() (Client.update_tokens)
CallUpdateTokens(t, budget) ==
    /\ StartCall(t, "ut", budget)
    /\ pc' = [pc EXCEPT ![t] = "ut_start"]
    /\ obs' = [obs EXCEPT !.calls = @ + 1, !.cyc[t] = NoCycle]
    /\ UNCHANGED <<now, cfg, mem, tokThread, file, lock, loc, first, wake>>

\* update_tokens_auto() (Client.update_tokens_auto)
CallAuto(t, budget) ==
    /\ StartCall(t, "uta", budget)
    /\ pc' = [pc EXCEPT ![t] = "uta_check"]
    /\ obs' = [obs EXCEPT !.calls = @ + 1,
                          !.late[t] = obs.autoDone[ProcOf(t)],
                          !.waited[t] = FALSE]
    /\ UNCHANGED <<now, cfg, mem, tokThread, file, lock, loc, first, wake>>

\* ----------------------------------------------------------------- DoLocked
\* (variant: a lock that excludes nobody)
LockFree_NoExclusion(t) == TRUE
\* with self._lock: entering acquires the lock; it blocks while another
\* thread or process holds it
LockFree(t) == lock = NoThread

\* with self._lock: if self._tokens_unchanged(): func(self, ...)
\* The lock is taken and the file is re-loaded in one step; when the tokens
\* have changed the function is skipped and the lock released at once.
DLEnter(t) ==
    /\ pc[t] = "dl_enter"
    /\ LockFree(t)
    /\ LET p == ProcOf(t)
           u == TokensUnchanged(mem[p], file)
           ok == file.fmt = "ok" IN
       /\ mem' = [mem EXCEPT ![p] = u.mem]
       /\ obs' = [obs EXCEPT
                    !.chk[t] = [done |-> TRUE, readok |-> ok,
                                rdiff |-> ok /\ file.td.rt # mem[p].rt,
                                adiff |-> ok /\ file.td.at # mem[p].at,
                                after |-> {x \in Threads : obs.chk[x].done}]]
       /\ IF u.unchanged
          THEN /\ lock' = t
               /\ pc' = [pc EXCEPT ![t] = BodyStart(loc[t].fn)]
               /\ UNCHANGED <<loc, res>>
          ELSE /\ pc' = [pc EXCEPT ![t] = NextPc(t, "none")]
               /\ res' = NextRes(t, "none")
               /\ loc' = [loc EXCEPT ![t] = IdleLoc]
               /\ lock' = lock
    /\ UNCHANGED <<now, cfg, tokThread, file, top, first, wake>>

\* -------------------------------------------------- _update_access_token
\* what follows a non-2xx response to attempt i: color_print.error(...),
\* time.sleep(i ** 2), and after the last attempt the for-else raises
\* (variant: a delay that grows linearly)
Backoff_Linear(i) == i + i
Backoff(i) == i * i
\* (variant: a loop of one more attempt)
LastAttempt_OneMore(i) == i >= RefreshAttempts
LastAttempt(i) == i + 1 >= RefreshAttempts

\* (variant: the refresh token is set from every response that carries one)
RefreshApplied_AlwaysSet(m, r) ==
    LET a == [m EXCEPT !.id = r.id, !.at = r.at, !.ai = IssuedBySetter(@)] IN
    IF r.rt # NoneTok THEN [a EXCEPT !.rt = r.rt, !.ri = IssuedBySetter(@)] ELSE a
\* if response.ok: id_token, access token (issued now), refresh token when
\* the response carries a different one
RefreshApplied(m, r) ==
    LET a == [m EXCEPT !.id = r.id, !.at = r.at, !.ai = IssuedBySetter(@)] IN
    IF r.rt # NoneTok /\ r.rt # m.rt
    THEN [a EXCEPT !.rt = r.rt, !.ri = IssuedBySetter(@)]
    ELSE a

\* (variant: a refused attempt forgets the access token)
NotApplied_Forgets(m) == [m EXCEPT !.at = NoneTok]
\* else: color_print.error(...); time.sleep(i ** 2): nothing is assigned
NotApplied(m) == m
\* (variant: a transport error counts as a refused attempt)
UATPost_NetRetried(t, responses, budget) ==
    /\ pc[t] = "uat_post"
    /\ obs.nposts < budget
    /\ LET o == [obs EXCEPT !.nposts = @ + 1, !.posts[t] = @ + 1,
                            !.ran[t] = TRUE,
                            !.att0[t] = IF obs.posts[t] = 0
                                        THEN First(mem[ProcOf(t)]) ELSE @] IN
       \/ \E r \in responses :
            /\ loc' = [loc EXCEPT ![t].resp = r]
            /\ mem' = [mem EXCEPT ![ProcOf(t)] = RefreshApplied(@, r)]
            /\ pc' = [pc EXCEPT ![t] = "wr_open"]
            /\ obs' = [o EXCEPT !.xch[t] = Exchange("uat", r, mem[ProcOf(t)]),
                                !.unsaved[ProcOf(t)] = NoUnsaved,
                                !.att0[t] = NoFirst]
            /\ UNCHANGED <<now, res, lock>>
       \/ /\ IF LastAttempt(loc[t].att)
             THEN ExitBody(t, "TokenUpdateError")
             ELSE /\ loc' = [loc EXCEPT ![t].att = @ + 1]
                  /\ UNCHANGED <<pc, res, lock>>
          /\ now' = now + Backoff(loc[t].att)
          /\ obs' = [o EXCEPT !.delays[t] = Append(@, Backoff(loc[t].att))]
          /\ mem' = [mem EXCEPT ![ProcOf(t)] = NotApplied(@)]
       \/ /\ IF LastAttempt(loc[t].att)
             THEN ExitBody(t, "NetError")
             ELSE /\ loc' = [loc EXCEPT ![t].att = @ + 1]
                  /\ UNCHANGED <<pc, res, lock>>
          /\ obs' = o
          /\ UNCHANGED <<now, mem>>
    /\ UNCHANGED <<cfg, tokThread, file, top, first, wake>>
\* response = self._post_oauth_token('refresh_token', ...): one POST, which
\* answers 2xx with a payload (applied to the in-memory pair), answers
\* non-2xx (back off and try again), or raises (transport error)
UATPost(t, responses, budget) ==
    /\ pc[t] = "uat_post"
    /\ obs.nposts < budget
    /\ LET o == [obs EXCEPT !.nposts = @ + 1, !.posts[t] = @ + 1,
                            !.ran[t] = TRUE,
                            !.att0[t] = IF obs.posts[t] = 0
                                        THEN First(mem[ProcOf(t)]) ELSE @] IN
       \/ \E r \in responses :
            /\ loc' = [loc EXCEPT ![t].resp = r]
            /\ mem' = [mem EXCEPT ![ProcOf(t)] = RefreshApplied(@, r)]
            /\ pc' = [pc EXCEPT ![t] = "wr_open"]
            /\ obs' = [o EXCEPT !.xch[t] = Exchange("uat", r, mem[ProcOf(t)]),
                                !.unsaved[ProcOf(t)] = NoUnsaved,
                                !.att0[t] = NoFirst]
            /\ UNCHANGED <<now, res, lock>>
       \/ /\ IF LastAttempt(loc[t].att)
             THEN ExitBody(t, "TokenUpdateError")
             ELSE /\ loc' = [loc EXCEPT ![t].att = @ + 1]
                  /\ UNCHANGED <<pc, res, lock>>
          /\ now' = now + Backoff(loc[t].att)
          /\ obs' = [o EXCEPT !.delays[t] = Append(@, Backoff(loc[t].att))]
          /\ mem' = [mem EXCEPT ![ProcOf(t)] = NotApplied(@)]
       \/ /\ ExitBody(t, "NetError")
          /\ obs' = o
          /\ UNCHANGED <<now, mem>>
    /\ UNCHANGED <<cfg, tokThread, file, top, first, wake>>

\* (variant: the lifetime is left as it was)
LifetimeApplied_Kept(m, r) == m
\* self._access_token.lifetime = new_td.get("expires_in", lifetime)
LifetimeApplied(m, r) == [m EXCEPT !.al = IF r.ei = 0 THEN @ ELSE r.ei]

\* ------------------------------------------------------ _write_tokens_file
\* _write_tokens_file has returned: _update_access_token sets the lifetime
\* and breaks out of the loop, acquire_refresh_token returns
AfterWrite(t) ==
    /\ mem' = [mem EXCEPT ![ProcOf(t)] =
                 IF loc[t].fn = "uat" THEN LifetimeApplied(@, loc[t].resp) ELSE @]
    /\ ExitBody(t, "none")

\* with open(self._tokens_file, 'w') as f: the file is truncated; an open
\* that fails is logged and swallowed
WROpen(t) ==
    /\ pc[t] = "wr_open"
    /\ \/ /\ file' = EmptyFile
          /\ pc' = [pc EXCEPT ![t] = "wr_dump"]
          /\ obs' = [obs EXCEPT !.nolock = @ \/ Unlocked(t), !.wrote[t] = "trunc",
                                !.lastw = NoWrite, !.cut[t] = file.fmt = "ok"]
          /\ UNCHANGED <<mem, loc, res, lock>>
       \/ /\ AfterWrite(t)
          /\ obs' = [obs EXCEPT !.unsaved[ProcOf(t)] = Unsaved(mem[ProcOf(t)])]
          /\ file' = file
    /\ UNCHANGED <<now, cfg, tokThread, top, first, wake>>

\* toWrite = {...}; json.dump(toWrite, f); f.flush(): an error is logged and
\* swallowed, the file stays as the truncation left it
WRDump(t) ==
    /\ pc[t] = "wr_dump"
    /\ \/ /\ file' = WrittenFile(mem[ProcOf(t)], loc[t].resp)
          /\ obs' = [obs EXCEPT !.nolock = @ \/ Unlocked(t),
                                !.wrote[t] = IF file'.fmt = "ok" THEN "saved" ELSE @,
                                !.lastw = IF file'.fmt = "ok"
                                          THEN [ok |-> TRUE, payload |-> loc[t].resp,
                                                ai |-> mem[ProcOf(t)].ai,
                                                ri |-> mem[ProcOf(t)].ri]
                                          ELSE NoWrite,
                                !.unsaved[ProcOf(t)] =
                                    IF file'.fmt = "ok" THEN @
                                    ELSE Unsaved(mem[ProcOf(t)])]
       \/ /\ obs' = [obs EXCEPT !.unsaved[ProcOf(t)] = Unsaved(mem[ProcOf(t)])]
          /\ file' = file
    /\ AfterWrite(t)
    /\ UNCHANGED <<now, cfg, tokThread, top, first, wake>>

\* ---------------------------------------------------- acquire_refresh_token
\* the pasted URL, as a sequence of pieces: "code=" and "%40" are the two
\* markers, any other piece is text without them
Urls == { <<"u", "code=", "c", "%40", "s">>, <<"u", "code=", "c">>,
          <<"u", "%40", "s">>, <<"%40", "code=", "c">>, <<"u">>,
          <<"u", "code=", "c", "d", "%40", "s", "%40">>,
          <<"%40", "code=", "c", "%40", "s">>,
          <<"code=", "code=", "c", "%40">> }
\* x in url: whether the URL holds the piece x
Holds(url, x) == \E i \in 1..Len(url) : url[i] = x
\* (variant: str.rindex, the last position)
Index_Last(url, x) ==
    IF \E i \in 1..Len(url) : url[i] = x
    THEN CHOOSE i \in 1..Len(url) : url[i] = x /\ \A j \in (i + 1)..Len(url) : url[j] # x
    ELSE 0
\* str.index: the first position of piece x, 0 when there is none (ValueError)
Index(url, x) ==
    IF \E i \in 1..Len(url) : url[i] = x
    THEN CHOOSE i \in 1..Len(url) : url[i] = x /\ \A j \in 1..(i - 1) : url[j] # x
    ELSE 0
\* response_url[index('code=') + 5 : index('%40')] + "@"
ParseCode(url) ==
    LET i == Index(url, "code=")
        j == Index(url, "%40") IN
    IF i = 0 \/ j = 0 THEN [ok |-> FALSE, code |-> << >>]
    ELSE [ok |-> TRUE,
          code |-> SubSeq(url, i + 1, j - 1) \o <<"@">>]

\* if not self._webbrowser and not stdin.isatty(): raise TokenUpdateError
Interactive(p) == cfg[p].inter

\* the check above, then response_url = color_print.user_input(...), which
\* blocks until the user answers, then the code is cut out of the answer
ARTInput(t) ==
    /\ pc[t] = "art_input"
    /\ IF ~Interactive(ProcOf(t))
       THEN /\ ExitBody(t, "TokenUpdateError")
            /\ obs' = [obs EXCEPT !.ran[t] = TRUE]
       ELSE \E url \in Urls :
               /\ obs' = [obs EXCEPT !.ran[t] = TRUE,
                                     !.lacks[t] = ~Holds(url, "code=") \/ ~Holds(url, "%40")]
               /\ IF ParseCode(url).ok
                  THEN /\ pc' = [pc EXCEPT ![t] = "art_post"]
                       /\ loc' = [loc EXCEPT ![t].url = url,
                                             ![t].code = ParseCode(url).code]
                       /\ UNCHANGED <<res, lock>>
                  ELSE ExitBody(t, "ValueError")
    /\ UNCHANGED <<now, cfg, mem, tokThread, file, top, first, wake>>

\* if response.ok: id_token and both tokens are set (both issued now)
AcquireApplied(m, r) ==
    [m EXCEPT !.id = r.id, !.at = r.at, !.ai = IssuedBySetter(@), !.rt = r.rt, !.ri = IssuedBySetter(@)]

\* (variant: a non-2xx answer is followed by another POST)
ARTPost_Retried(t, responses, budget) ==
    /\ pc[t] = "art_post"
    /\ obs.nposts < budget
    /\ LET o == [obs EXCEPT !.nposts = @ + 1, !.posts[t] = @ + 1] IN
       \/ \E r \in responses :
            /\ loc' = [loc EXCEPT ![t].resp = r, ![t].url = << >>, ![t].code = << >>]
            /\ mem' = [mem EXCEPT ![ProcOf(t)] = AcquireApplied(@, r)]
            /\ pc' = [pc EXCEPT ![t] = "wr_open"]
            /\ obs' = [o EXCEPT !.xch[t] = Exchange("art", r, mem[ProcOf(t)]),
                                !.unsaved[ProcOf(t)] = NoUnsaved]
            /\ UNCHANGED <<res, lock>>
       \/ /\ IF obs.posts[t] >= 1 THEN ExitBody(t, "TokenUpdateError")
             ELSE UNCHANGED <<pc, res, loc, lock>>
          /\ obs' = o
          /\ mem' = mem
       \/ /\ ExitBody(t, "NetError")
          /\ obs' = o
          /\ mem' = mem
    /\ UNCHANGED <<now, cfg, tokThread, file, top, first, wake>>
\* response = self._post_oauth_token('authorization_code', code): one POST;
\* a 2xx payload is applied, anything else raises
ARTPost(t, responses, budget) ==
    /\ pc[t] = "art_post"
    /\ obs.nposts < budget
    /\ LET o == [obs EXCEPT !.nposts = @ + 1, !.posts[t] = @ + 1] IN
       \/ \E r \in responses :
            /\ loc' = [loc EXCEPT ![t].resp = r, ![t].url = << >>, ![t].code = << >>]
            /\ mem' = [mem EXCEPT ![ProcOf(t)] = AcquireApplied(@, r)]
            /\ pc' = [pc EXCEPT ![t] = "wr_open"]
            /\ obs' = [o EXCEPT !.xch[t] = Exchange("art", r, mem[ProcOf(t)]),
                                !.unsaved[ProcOf(t)] = NoUnsaved]
            /\ UNCHANGED <<res, lock>>
       \/ /\ ExitBody(t, "TokenUpdateError")
          /\ obs' = o
          /\ mem' = mem
       \/ /\ ExitBody(t, "NetError")
          /\ obs' = o
          /\ mem' = mem
    /\ UNCHANGED <<now, cfg, tokThread, file, top, first, wake>>

\* --------------------------------------------------------------- update_tokens
\* update_tokens returns without having called a guarded function last
Return(t) ==
    /\ pc' = [pc EXCEPT ![t] = IF IsLoop(t) THEN "ck_set" ELSE "idle"]
    /\ res' = [res EXCEPT ![t] = "ok"]
    /\ loc' = loc

\* what the first step of update_tokens decides:
\* tokens.py: rtem = ... if self._refresh_token.expires < 1; the warnings;
\*            if self._auto_refresh: self.acquire_refresh_token()
\* api.py:    if self._auto_refresh and rte < 1: ... acquire_refresh_token()
\*            elif rte < usable or access.expires < usable:
\*                self._update_access_token()
FirstStep(kind, auto, rte, ate) ==
    IF kind = "api"
    THEN IF auto /\ rte < 1 THEN "art_last"
         ELSE IF rte < TokenUsable \/ ate < TokenUsable THEN "uat_last"
         ELSE "return"
    ELSE IF rte < 1 /\ auto THEN "art_first" ELSE "second"

\* (variant: the warnings of api.py, printed only with auto_refresh)
Warnings_AutoOnly(kind, auto, rte) == IF rte < 1 /\ auto THEN WarningRepeats ELSE 0
\* for i in range(3): color_print.user("... please update!"): the warnings
\* of one call (tokens.py: whenever the refresh token has expired; api.py:
\* only with auto_refresh)
Warnings(kind, auto, rte) ==
    IF rte < 1 /\ (kind # "api" \/ auto) THEN WarningRepeats ELSE 0

UTStart(t) ==
    /\ pc[t] = "ut_start"
    /\ LET p == ProcOf(t)
           rte == RefreshExpires(mem[p])
           ate == AccessExpires(mem[p])
           d == FirstStep(Kind(t), cfg[p].auto, rte, ate)
           o == [obs EXCEPT !.cyc[t] =
                    [@ EXCEPT !.rlow = rte < 1, !.alow0 = ate < TokenUsable,
                              !.warns = Warnings(Kind(t), cfg[p].auto, rte),
                              !.art = d \in {"art_last", "art_first"},
                              !.uat = d = "uat_last"]] IN
       CASE d = "art_last" -> Enter(t, "art", "ut2") /\ obs' = ObsEnter(o, t, "art")
                              /\ res' = res
         [] d = "uat_last" -> Enter(t, "uat", "ut2") /\ obs' = ObsEnter(o, t, "uat")
                              /\ res' = res
         [] d = "art_first" -> Enter(t, "art", "ut1") /\ obs' = ObsEnter(o, t, "art")
                               /\ res' = res
         [] d = "second" -> /\ pc' = [pc EXCEPT ![t] = "ut_access"]
                            /\ obs' = o
                            /\ UNCHANGED <<loc, res>>
         [] OTHER -> Return(t) /\ obs' = o
    /\ UNCHANGED <<now, cfg, mem, tokThread, file, lock, top, first, wake>>

\* (variant: a refresh only when the access token has run out)
NeedsRefresh_Expired(m) == AccessExpires(m) < 1
\* tokens.py: if self._access_token.expires < self._token_usable:
\*                self._update_access_token()
NeedsRefresh(m) == AccessExpires(m) < TokenUsable
UTAccess(t) ==
    /\ pc[t] = "ut_access"
    /\ LET o == [obs EXCEPT !.cyc[t] =
                    [@ EXCEPT !.reached = TRUE,
                              !.alow = AccessExpires(mem[ProcOf(t)]) < TokenUsable]] IN
       IF NeedsRefresh(mem[ProcOf(t)])
       THEN /\ Enter(t, "uat", "ut2")
            /\ obs' = ObsEnter([o EXCEPT !.cyc[t].uat = TRUE], t, "uat")
            /\ res' = res
       ELSE Return(t) /\ obs' = o
    /\ UNCHANGED <<now, cfg, mem, tokThread, file, lock, top, first, wake>>

\* ---------------------------------------------------------- update_tokens_auto
\* if self._token_thread: return
TokenThreadSet(p) == tokThread[p] # NoThread
\* (variant: a start without the check)
UTACheck_NoCheck(t) ==
    /\ pc[t] = "uta_check"
    /\ pc' = [pc EXCEPT ![t] = "uta_spawn"]
    /\ UNCHANGED <<now, cfg, mem, tokThread, file, lock, loc, top, res, first,
                   wake, obs>>
UTACheck(t) ==
    /\ pc[t] = "uta_check"
    /\ IF TokenThreadSet(ProcOf(t))
       THEN /\ pc' = [pc EXCEPT ![t] = "idle"]
            /\ res' = [res EXCEPT ![t] = "ok"]
            /\ obs' = [obs EXCEPT !.autoDone[ProcOf(t)] = TRUE]
       ELSE /\ pc' = [pc EXCEPT ![t] = "uta_spawn"]
            /\ UNCHANGED <<res, obs>>
    /\ UNCHANGED <<now, cfg, mem, tokThread, file, lock, loc, top, first, wake>>

\* first = threading.Event(); self._token_thread = Thread(target=checker);
\* self._token_thread.start()
UTASpawn(t) ==
    /\ pc[t] = "uta_spawn"
    /\ tokThread' = [tokThread EXCEPT ![ProcOf(t)] = LoopOf(t)]
    /\ first' = [first EXCEPT ![LoopOf(t)] = FALSE]
    /\ pc' = [pc EXCEPT ![t] = "uta_wait", ![LoopOf(t)] = "ck_while"]
    /\ obs' = [obs EXCEPT !.spawned[ProcOf(t)] = @ + 1]
    /\ UNCHANGED <<now, cfg, mem, file, lock, loc, top, res, wake>>

\* (variant: a start that does not wait for the first cycle)
FirstIsSet_NoWait(t) == TRUE
\* first.wait()
FirstIsSet(t) == first[LoopOf(t)]
UTAWait(t) ==
    /\ pc[t] = "uta_wait"
    /\ FirstIsSet(t)
    /\ pc' = [pc EXCEPT ![t] = "idle"]
    /\ res' = [res EXCEPT ![t] = "ok"]
    /\ obs' = [obs EXCEPT !.autoDone[ProcOf(t)] = TRUE, !.waited[t] = TRUE]
    /\ UNCHANGED <<now, cfg, mem, tokThread, file, lock, loc, top, first, wake>>

\* checker: while self._token_thread: try: self.update_tokens()
CKWhile(t) ==
    /\ pc[t] = "ck_while"
    /\ IF TokenThreadSet(ProcOf(t))
       THEN /\ pc' = [pc EXCEPT ![t] = "ut_start"]
            /\ obs' = [obs EXCEPT !.cycles[t] = IF @ < 2 THEN @ + 1 ELSE @,
                                  !.cyc[t] = NoCycle]
            /\ res' = [res EXCEPT ![t] = "running"]
       ELSE /\ pc' = [pc EXCEPT ![t] = "ended"]
            /\ UNCHANGED <<obs, res>>
    /\ top' = [top EXCEPT ![t] = "ut"]
    /\ UNCHANGED <<now, cfg, mem, tokThread, file, lock, loc, first, wake>>

\* (variant: a checker that catches the token errors only)
Caught_TokenErrorsOnly(e) == e = "TokenUpdateError"
\* checker: except Exception as e: color_print.error(...): the exceptions
\* of update_tokens that the checker catches
Caught(e) == TRUE
\* checker: first.set(); time.sleep(self._token_usable); an exception that
\* is not caught ends the thread
CKSet(t) ==
    /\ pc[t] = "ck_set"
    /\ IF res[t] = "ok" \/ Caught(res[t])
       THEN /\ first' = [first EXCEPT ![t] = TRUE]
            /\ wake' = [wake EXCEPT ![t] = now + TokenUsable]
            /\ pc' = [pc EXCEPT ![t] = "ck_sleep"]
       ELSE /\ pc' = [pc EXCEPT ![t] = "ended"]
            /\ UNCHANGED <<first, wake>>
    /\ obs' = [obs EXCEPT !.raised[t] = @ \/ res[t] # "ok",
                          !.prevx[t] = /\ res[t] = "TokenUpdateError"
                                       /\ obs.cyc[t].uat
                                       /\ Len(obs.delays[t]) = RefreshAttempts]
    /\ UNCHANGED <<now, cfg, mem, tokThread, file, lock, loc, top, res>>

\* checker: time.sleep() returns
CKWake(t) ==
    /\ pc[t] = "ck_sleep"
    /\ now >= wake[t]
    /\ pc' = [pc EXCEPT ![t] = "ck_while"]
    /\ UNCHANGED <<now, cfg, mem, tokThread, file, lock, loc, top, res, first,
                   wake, obs>>

\* ----------------------------------------------------------------- the clock
Tick(d) ==
    /\ now + d <= MaxTime
    /\ now' = now + d
    /\ UNCHANGED <<cfg, mem, tokThread, file, lock, pc, loc, top, res, first,
                   wake, obs>>

\* -------------------------------------------------------------- initial states
\* a tokens file left by an earlier run: the provider's payload and the two
\* issue times; the access token is fresh, about to expire or expired, the
\* refresh token fresh or expired
StoredPayload == [at |-> 1, rt |-> 1, ei |-> ACCESS_LIFE_SECONDS, id |-> 1,
                  extra |-> NoneTok]
AccessIssuedVals == {0, TokenUsable - 1 - ACCESS_LIFE_SECONDS, 0 - ACCESS_LIFE_SECONDS}
RefreshIssuedVals == {0, 0 - REFRESH_LIFE_DAYS * DaySeconds}
StoredFiles(fmts) ==
    {EmptyFile} \cup
    {[fmt |-> f, td |-> StoredPayload, ai |-> IsoFormat(a), ri |-> IsoFormat(r)] :
        <<f, a, r>> \in fmts \X AccessIssuedVals \X RefreshIssuedVals}

Cfgs(kinds) == [kind : kinds, auto : BOOLEAN, inter : BOOLEAN]
IdleCfg == [kind |-> "nolock", auto |-> FALSE, inter |-> FALSE]

\* the processes in P are about to construct their manager; the application
\* threads in C exist in each of them
InitWith(P, C, cfgs, files) ==
    /\ now = 0
    /\ \E k \in [P -> cfgs] :
          /\ cfg = [p \in Procs |-> IF p \in P THEN k[p] ELSE IdleCfg]
          /\ mem = [p \in Procs |->
                      FreshMem(IF p \in P THEN k[p].kind ELSE IdleCfg.kind)]
    /\ tokThread = [p \in Procs |-> NoThread]
    /\ file \in files
    /\ lock = NoThread
    /\ pc = [t \in Threads |->
               IF t[1] \in P /\ t[2] = "c1" THEN "new"
               ELSE IF t[1] \in P /\ t[2] \in C THEN "idle"
               ELSE "off"]
    /\ loc = [t \in Threads |-> IdleLoc]
    /\ top = [t \in Threads |-> "none"]
    /\ res = [t \in Threads |-> "none"]
    /\ first = [t \in Threads |-> FALSE]
    /\ wake = [t \in Threads |-> 0]
    /\ obs = ObsInit

\* the manager of process p has been constructed (thread c1 constructs it)
Constructed(p) == pc[<<p, "c1">>] \notin {"new", "init_trunc", "off"}

\* ------------------------------------------------------------------ next state
\* one step of thread t inside the manager
ConstructStep(t) ==
    \/ Construct(t)
    \/ ConstructRecreate(t)

UpdateStep(t) ==
    \/ UTStart(t)
    \/ UTAccess(t)

Step(t, responses, budget) ==
    \/ UATPost(t, responses, budget)
    \/ WROpen(t)
    \/ WRDump(t)
    \/ ARTInput(t)
    \/ ARTPost(t, responses, budget)

StartStep(t) ==
    \/ UTACheck(t)
    \/ UTASpawn(t)
    \/ UTAWait(t)

CheckerStep(t) ==
    \/ CKWhile(t)
    \/ CKSet(t)

\* the provider of the scheduler scenarios: one payload
FixedResponses ==
    {[at |-> 2, rt |-> 1, ei |-> ACCESS_LIFE_SECONDS, id |-> 1, extra |-> NoneTok]}
PlainFiles ==
    {EmptyFile, [fmt |-> "ok", td |-> StoredPayload,
                 ai |-> IsoFormat(0), ri |-> IsoFormat(0)]}

\* Token: one Token object (the access token of process 1, not yet loaded)
\* with a lifetime from TokenLifetimes; the application assigns secrets and
\* evaluates expires as time passes
TokenThread == <<1, "c1">>
InitToken ==
    /\ now = 0
    /\ cfg = [p \in Procs |-> IdleCfg]
    /\ \E L \in TokenLifetimes :
          mem = [p \in Procs |-> [FreshMem("locked") EXCEPT !.al = L]]
    /\ tokThread = [p \in Procs |-> NoThread]
    /\ file = EmptyFile
    /\ lock = NoThread
    /\ pc = [t \in Threads |-> IF t = TokenThread THEN "idle" ELSE "off"]
    /\ loc = [t \in Threads |-> IdleLoc]
    /\ top = [t \in Threads |-> "none"]
    /\ res = [t \in Threads |-> "none"]
    /\ first = [t \in Threads |-> FALSE]
    /\ wake = [t \in Threads |-> 0]
    /\ obs = ObsInit
\* token.token = v
TokenAssign(t, v, budget) ==
    /\ pc[t] = "idle"
    /\ obs.calls < budget
    /\ mem' = [mem EXCEPT ![ProcOf(t)] = [@ EXCEPT !.at = v, !.ai = IssuedBySetter(@)]]
    /\ obs' = [obs EXCEPT !.calls = @ + 1,
                          !.asg = [done |-> TRUE, value |-> v, at |-> now,
                                   n |-> obs.calls + 1]]
    /\ UNCHANGED <<now, cfg, tokThread, file, lock, pc, loc, top, res, first, wake>>
\* token.expires
TokenExpires(t, budget) ==
    /\ pc[t] = "idle"
    /\ obs.calls < budget
    /\ LET m == mem[ProcOf(t)] IN
       obs' = [obs EXCEPT !.calls = @ + 1,
                          !.exp = [done |-> TRUE, raised |-> ExpiresRaises(m.ai),
                                   value |-> AccessExpires(m), issued |-> m.ai,
                                   lifetime |-> m.al, at |-> now,
                                   n |-> obs.calls + 1]]
    /\ UNCHANGED <<now, cfg, mem, tokThread, file, lock, pc, loc, top, res, first,
                   wake>>
NextToken ==
    \/ \E v \in Secrets : TokenAssign(TokenThread, v, MaxCalls)
    \/ TokenExpires(TokenThread, MaxCalls)
    \/ Tick(TokenUsable)
SpecToken == InitToken /\ [][NextToken]_vars

\* Processes: two processes, each with a manager of tokens.py and LockFile,
\* share the tokens file; the application thread of each constructs the
\* manager and calls _update_access_token() or acquire_refresh_token()
InitProcs ==
    InitWith(Procs, {"c1"}, {c \in Cfgs({"locked"}) : c.auto /\ c.inter},
             PlainFiles)
NextProcs ==
    \E t \in Threads :
        \/ ConstructStep(t)
        \/ Step(t, PlainResponses, MaxPosts)
        \/ DLEnter(t)
        \/ Constructed(ProcOf(t)) /\ CallRefresh(t, MaxCalls)
        \/ Constructed(ProcOf(t)) /\ CallAcquire(t, MaxCalls)
SpecProcs == InitProcs /\ [][NextProcs]_vars

\* Unavailable: two processes share the tokens file; process 1 has a
\* terminal and calls _update_access_token() or acquire_refresh_token(),
\* process 2 has neither a terminal nor the webbrowser permission and calls
\* acquire_refresh_token()
InitUnavail ==
    /\ InitWith(Procs, {"c1"}, {c \in Cfgs({"locked"}) : c.auto}, PlainFiles)
    /\ cfg[1].inter
    /\ ~cfg[2].inter
NextUnavail ==
    \E t \in Threads :
        \/ ConstructStep(t)
        \/ Step(t, PlainResponses, MaxPosts)
        \/ DLEnter(t)
        \/ Constructed(ProcOf(t)) /\ ProcOf(t) = 1 /\ CallRefresh(t, MaxCalls)
        \/ Constructed(ProcOf(t)) /\ CallAcquire(t, MaxCalls)
SpecUnavail == InitUnavail /\ [][NextUnavail]_vars

\* Construct: one process with a manager of tokens.py and LockFile is
\* constructed on a tokens file that is missing, malformed or well-formed;
\* the application then calls update_tokens()
AnyFiles == StoredFiles({"ok", "no_td", "bad_ai", "bad_ri"})
InitConstruct == InitWith({1}, {"c1"}, Cfgs({"locked"}), AnyFiles)
NextConstruct ==
    \E t \in Threads :
        \/ ConstructStep(t)
        \/ UpdateStep(t)
        \/ Step(t, FixedResponses, MaxPosts)
        \/ DLEnter(t)
        \/ Constructed(ProcOf(t)) /\ CallUpdateTokens(t, MaxCalls)
SpecConstruct == InitConstruct /\ [][NextConstruct]_vars

\* Start: one process with a manager of tokens.py and LockFile; two
\* application threads call update_tokens_auto()
InitStart ==
    InitWith({1}, Callers, Cfgs({"locked"}), StoredFiles({"ok"}))
NextStart ==
    \E t \in Threads :
        \/ ConstructStep(t)
        \/ UpdateStep(t)
        \/ Step(t, FixedResponses, MaxPosts)
        \/ DLEnter(t)
        \/ StartStep(t)
        \/ CheckerStep(t)
        \/ Constructed(ProcOf(t)) /\ CallAuto(t, MaxCalls)
SpecStart == InitStart /\ [][NextStart]_vars

\* Sched: one process with a manager of tokens.py and LockFile or with the
\* manager of api.py (Client); thread c1 calls update_tokens_auto(), thread
\* c2 calls update_tokens(); the clock advances by the poll interval
InitSched ==
    InitWith({1}, Callers, {c \in Cfgs({"locked", "api"}) : c.inter},
             StoredFiles({"ok"}))
NextSched ==
    \/ \E t \in Threads :
        \/ ConstructStep(t)
        \/ UpdateStep(t)
        \/ Step(t, FixedResponses, MaxPosts)
        \/ DLEnter(t)
        \/ StartStep(t)
        \/ CheckerStep(t)
        \/ CKWake(t)
        \/ Constructed(ProcOf(t)) /\ t[2] = "c1" /\ CallAuto(t, MaxCalls)
        \/ Constructed(ProcOf(t)) /\ t[2] = "c2" /\ CallUpdateTokens(t, MaxCalls)
    \/ Tick(TokenUsable)
SpecSched == InitSched /\ [][NextSched]_vars

\* Loop: one process with a manager of tokens.py and LockFile; thread c1
\* calls update_tokens_auto(); the clock advances by the poll interval.
\* Fairness: a thread that can take a step of the checker's own code takes
\* it, and time passes; nothing is assumed about the user or the provider.
InitLoop ==
    InitWith({1}, {"c1"}, Cfgs({"locked"}), StoredFiles({"ok"}))
NextLoop ==
    \/ \E t \in Threads :
        \/ ConstructStep(t)
        \/ UpdateStep(t)
        \/ Step(t, FixedResponses, MaxLoopPosts)
        \/ DLEnter(t)
        \/ StartStep(t)
        \/ CheckerStep(t)
        \/ CKWake(t)
        \/ Constructed(ProcOf(t)) /\ CallAuto(t, MaxCalls)
    \/ Tick(TokenUsable)
FairLoop ==
    /\ WF_vars(Tick(TokenUsable))
    /\ \A t \in Threads :
          /\ WF_vars(CKWhile(t))
          /\ WF_vars(CKSet(t))
          /\ WF_vars(CKWake(t))
          /\ WF_vars(UTAWait(t))
SpecLoop == InitLoop /\ [][NextLoop]_vars /\ FairLoop

\* Keep: the scenario of Loop on no file, or on a file whose refresh token
\* is fresh and whose access token has its whole lifetime, or exactly the
\* usable time, left
KeepFiles ==
    {EmptyFile} \cup
    {[fmt |-> "ok", td |-> StoredPayload, ai |-> IsoFormat(a), ri |-> IsoFormat(0)] :
        a \in {0, TokenUsable - ACCESS_LIFE_SECONDS}}
InitKeep == InitWith({1}, {"c1"}, Cfgs({"locked"}), KeepFiles)
SpecKeep == InitKeep /\ [][NextLoop]_vars /\ FairLoop

\* Retry: the scenario of Loop on no file, or on a file whose access token
\* has expired and whose refresh token is fresh or has 1 s left, with a
\* provider that answers more POSTs
RetryFiles ==
    {EmptyFile} \cup
    {[fmt |-> "ok", td |-> StoredPayload, ai |-> IsoFormat(0 - ACCESS_LIFE_SECONDS),
      ri |-> IsoFormat(r)] : r \in {0, 1 - REFRESH_LIFE_DAYS * DaySeconds}}
InitRetry == InitWith({1}, {"c1"}, Cfgs({"locked"}), RetryFiles)
NextRetry ==
    \/ \E t \in Threads :
        \/ ConstructStep(t)
        \/ UpdateStep(t)
        \/ Step(t, FixedResponses, MaxRetryPosts)
        \/ DLEnter(t)
        \/ StartStep(t)
        \/ CheckerStep(t)
        \/ CKWake(t)
        \/ Constructed(ProcOf(t)) /\ CallAuto(t, MaxCalls)
    \/ Tick(TokenUsable)
SpecRetry == InitRetry /\ [][NextRetry]_vars /\ FairLoop

\* Cycle: one process with a manager of tokens.py and LockFile; its
\* application thread calls update_tokens() again and again; the clock
\* advances by the poll interval
CycleFiles ==
    StoredFiles({"ok"}) \cup
    {[fmt |-> "ok", td |-> StoredPayload, ai |-> IsoFormat(0),
      ri |-> IsoFormat(1 - REFRESH_LIFE_DAYS * DaySeconds)]}
InitCycle ==
    InitWith({1}, {"c1"}, Cfgs({"locked"}), CycleFiles)
NextCycle ==
    \/ \E t \in Threads :
        \/ ConstructStep(t)
        \/ UpdateStep(t)
        \/ Step(t, FixedResponses, MaxPosts)
        \/ DLEnter(t)
        \/ Constructed(ProcOf(t)) /\ CallUpdateTokens(t, MaxCalls)
    \/ Tick(TokenUsable)
SpecCycle == InitCycle /\ [][NextCycle]_vars

\* Stale: the scenario of Cycle on a file that was saved when the provider
\* gave access tokens a lifetime of 30 s; the provider now answers with
\* expires_in = 1800
StaleFiles ==
    {EmptyFile} \cup
    {[fmt |-> "ok", td |-> [StoredPayload EXCEPT !.ei = 30], ai |-> IsoFormat(0),
      ri |-> IsoFormat(r)] : r \in RefreshIssuedVals}
InitStale == InitWith({1}, {"c1"}, Cfgs({"locked"}), StaleFiles)
SpecStale == InitStale /\ [][NextCycle]_vars

\* Decide: the scenario of Cycle with a manager of tokens.py or the manager of
\* api.py, the one Client constructs
DecideFiles ==
    CycleFiles \cup
    {[fmt |-> "ok", td |-> StoredPayload, ai |-> IsoFormat(0),
      ri |-> IsoFormat(1 - ApiRefreshDays * DaySeconds)]}
InitDecide == InitWith({1}, {"c1"}, Cfgs({"locked", "api"}), DecideFiles)
SpecDecide == InitDecide /\ [][NextCycle]_vars

\* Exchange: one process with a manager of tokens.py and LockFile; its
\* application thread calls _update_access_token() and
\* acquire_refresh_token(); the provider answers with the stored refresh
\* token or another one, with an expires_in or without
ExchangeResponses ==
    {r \in OkResponses : r.at = 2 /\ r.id = 1 /\ r.rt # NoneTok /\ r.ei # 1800}
InitExchange ==
    InitWith({1}, {"c1"}, {c \in Cfgs({"locked"}) : c.auto}, StoredFiles({"ok"}))
NextExchange ==
    \E t \in Threads :
        \/ ConstructStep(t)
        \/ Step(t, ExchangeResponses, MaxLoopPosts)
        \/ DLEnter(t)
        \/ Constructed(ProcOf(t)) /\ CallRefresh(t, MaxCalls)
        \/ Constructed(ProcOf(t)) /\ CallAcquire(t, MaxCalls)
SpecExchange == InitExchange /\ [][NextExchange]_vars

\* Omit: the scenario of Exchange with a provider whose 2xx responses carry
\* the refresh secret in memory, another one, or no refresh_token at all
OmitResponses ==
    {r \in OkResponses : /\ r.at = 2 /\ r.id = 1 /\ r.ei = ACCESS_LIFE_SECONDS
                         /\ r.extra = NoneTok}
NextOmit ==
    \E t \in Threads :
        \/ ConstructStep(t)
        \/ Step(t, OmitResponses, MaxPosts)
        \/ DLEnter(t)
        \/ Constructed(ProcOf(t)) /\ CallRefresh(t, MaxCalls)
        \/ Constructed(ProcOf(t)) /\ CallAcquire(t, MaxCalls)
SpecOmit == InitExchange /\ [][NextOmit]_vars

\* NoLock: one process with a manager of tokens.py whose import of LockFile
\* failed; the application calls _update_access_token() or
\* acquire_refresh_token()
InitNoLock ==
    InitWith({1}, {"c1"}, {c \in Cfgs({"nolock"}) : c.auto}, StoredFiles({"ok"}))
NextNoLock ==
    \E t \in Threads :
        \/ ConstructStep(t)
        \/ Step(t, ExchangeResponses, MaxLoopPosts)
        \/ Constructed(ProcOf(t)) /\ CallRefresh(t, MaxCalls)
        \/ Constructed(ProcOf(t)) /\ CallAcquire(t, MaxCalls)
SpecNoLock == InitNoLock /\ [][NextNoLock]_vars

\* ======================================================= the lock (Processes)
\* two guarded calls t and u that overlap in time, t passing the still-current
\* check first, both ended
Overlap(t, u) ==
    /\ t # u
    /\ t \in obs.start[u].pending \/ u \in obs.start[t].pending
    /\ t \in obs.chk[u].after
    /\ u \notin obs.chk[t].after
    /\ pc[t] \notin CallPcs
    /\ pc[u] \notin CallPcs
\* both are _update_access_token and began with the same loaded pair
SamePair(t, u) ==
    /\ obs.start[t].fn = "uat"
    /\ obs.start[u].fn = "uat"
    /\ obs.start[t].at = obs.start[u].at
    /\ obs.start[t].rt = obs.start[u].rt
    /\ obs.start[t].at # NoneTok
    /\ obs.start[t].rt # NoneTok
\* the exchange of t succeeded with one POST, brought another access secret
\* and was saved
Exchanged(t) ==
    /\ obs.ran[t]
    /\ obs.posts[t] = 1
    /\ obs.wrote[t] = "saved"
    /\ res[t] = "ok"
    /\ mem[ProcOf(t)].at # obs.start[t].at
LockRace(t, u) == Overlap(t, u) /\ SamePair(t, u) /\ Exchanged(t)
\* u made no exchange of its own and holds what t saved in the file
Adopted(t, u) ==
    /\ ~obs.ran[u]
    /\ obs.posts[u] = 0
    /\ obs.posts[t] + obs.posts[u] = 1
    /\ obs.wrote[u] = "no"
    /\ res[u] = "ok"
    /\ file.fmt = "ok"
    /\ mem[ProcOf(u)].at = file.td.at
    /\ mem[ProcOf(u)].rt = file.td.rt
    /\ mem[ProcOf(u)].at = mem[ProcOf(t)].at

\* C1: two managers in different processes share the tokens file, hold the
\* same loaded pair and call _update_access_token concurrently; when the
\* exchange of the one that gets the lock first succeeds with another access
\* secret and is saved, the other one re-reads the file, adopts the saved
\* state and returns without a POST: one POST is made in all.
C1_LockRaceProcesses ==
    \A t, u \in Threads :
        (ProcOf(t) # ProcOf(u) /\ LockRace(t, u)) => Adopted(t, u)
C1_Witness ==
    \E t, u \in Threads :
        ProcOf(t) # ProcOf(u) /\ LockRace(t, u) /\ Adopted(t, u)
\* C3: a guarded function starts with the still-current check: the file is
\* re-loaded and compared with the secrets held before.  When the refresh
\* secret on disk differs, the function is not run (no POST, no write) and
\* memory holds what the file holds; when both secrets are equal, or the file
\* cannot be read, the function runs.
C3_CheckStep ==
    \A t \in Threads :
        LET p == ProcOf(t) IN
        (pc[t] = "dl_enter" /\ pc'[t] # "dl_enter") =>
            /\ (file.fmt = "ok" /\ file.td.rt # mem[p].rt) =>
                  /\ pc'[t] \notin BodyPcs
                  /\ lock' # t
                  /\ file' = file
                  /\ obs'.nposts = obs.nposts
                  /\ mem'[p].at = file.td.at
                  /\ mem'[p].rt = file.td.rt
                  /\ mem'[p].ai = FromIsoFormat(file.ai)
                  /\ mem'[p].ri = FromIsoFormat(file.ri)
            /\ (file.fmt # "ok"
                \/ (file.td.rt = mem[p].rt /\ file.td.at = mem[p].at)) =>
                  /\ pc'[t] = BodyStart(loc[t].fn)
                  /\ lock' = t
C3_CheckResult ==
    \A t \in Threads :
        /\ (obs.chk[t].done /\ obs.chk[t].rdiff) =>
              ~obs.ran[t] /\ obs.posts[t] = 0 /\ obs.wrote[t] = "no"
        /\ (obs.chk[t].done /\ (~obs.chk[t].readok
                                \/ (~obs.chk[t].rdiff /\ ~obs.chk[t].adiff))) =>
              pc[t] \in BodyPcs \/ obs.ran[t]
\* C3: both parts, on every step and in every state
C3_StillCurrent == [][C3_CheckStep]_vars /\ []C3_CheckResult
C3_Witness ==
    \E t, u \in Threads :
        /\ obs.chk[t].done /\ obs.chk[t].rdiff /\ pc[t] = "idle" /\ res[t] = "ok"
        /\ obs.chk[u].done /\ ~obs.chk[u].readok /\ obs.ran[u]
\* C5 (as stated): the tokens file is read, written and truncated only by a
\* thread that holds the lock of its manager, the load and the recreation at
\* construction included.
C5_Original == ~obs.nolock

\* C6: the lock is held only inside the guarded function: whichever way the
\* function is left (return, skip after the check, exception), the thread no
\* longer holds the lock.
C6_LockReleased ==
    /\ lock \in Threads \cup {NoThread}
    /\ \A t \in Threads : lock = t => pc[t] \in BodyPcs
C6_Witness ==
    \E t \in Threads :
        /\ obs.ran[t]
        /\ res[t] \in {"TokenUpdateError", "ValueError", "NetError"}
        /\ pc[t] = "idle"
        /\ lock = NoThread

\* ================================================== the lock (one instance)
\* C2 (as stated): the checker thread and an application thread of one
\* manager call _update_access_token concurrently for the same expiring
\* access token; one POST is made, the thread that gets the lock second sees
\* the updated state and returns without a POST of its own.
C2_Original ==
    \A t, u \in Threads :
        (ProcOf(t) = ProcOf(u) /\ IsLoop(t) # IsLoop(u) /\ LockRace(t, u))
            => Adopted(t, u)

\* C4 (as stated): the exchange-and-write section of the checker thread and
\* the one of an operation called from an application thread (update_tokens,
\* re-authorization) never interleave: two threads of one manager are never
\* both between their exchange and the end of their write.
WritePcs == {"wr_open", "wr_dump"}
C4_Original ==
    \A t, u \in Threads :
        (t # u /\ ProcOf(t) = ProcOf(u) /\ IsLoop(t) /\ ~IsLoop(u))
            => ~(pc[t] \in WritePcs /\ pc[u] \in WritePcs)

\* ================================================================ the scheduler
AppThreads == {t \in Threads : ~IsLoop(t)}
LoopThreads == {t \in Threads : IsLoop(t)}
\* the threads of the process the scheduler scenarios run
SchedApp == {t \in AppThreads : ProcOf(t) = 1}
SchedLoops == {t \in LoopThreads : ProcOf(t) = 1}
LiveLoops(p) == {l \in LoopThreads : ProcOf(l) = p /\ pc[l] \notin {"off", "ended"}}

\* C7: update_tokens_auto is idempotent.  A call that finds the scheduler idle
\* sets the thread and creates one checker thread; once a call has returned
\* the scheduler is running; a call made after an earlier call has returned
\* returns at the check, creates no thread and changes no state.
C7_Started ==
    \A t \in AppThreads :
        /\ obs.autoDone[ProcOf(t)] =>
              TokenThreadSet(ProcOf(t)) /\ obs.spawned[ProcOf(t)] >= 1
        /\ (top[t] = "uta" /\ obs.late[t]) => pc[t] \in {"uta_check", "idle"}
C7_Step ==
    \A t \in AppThreads :
        LET p == ProcOf(t) IN
        /\ (pc[t] = "uta_check" /\ obs.late[t] /\ pc'[t] # "uta_check") =>
              /\ pc'[t] = "idle"
              /\ obs'.spawned = obs.spawned
              /\ UNCHANGED <<now, cfg, mem, tokThread, file, lock, first, wake>>
              /\ \A x \in Threads \ {t} : pc'[x] = pc[x]
        /\ (pc[t] = "uta_spawn" /\ pc'[t] # "uta_spawn") =>
              /\ tokThread'[p] # NoThread
              /\ obs'.spawned[p] = obs.spawned[p] + 1
              /\ pc'[LoopOf(t)] = "ck_while"
\* C7: both parts, on every step and in every state
C7_Idempotent == [][C7_Step]_vars /\ []C7_Started
C7_Witness ==
    \E t \in AppThreads :
        /\ top[t] = "uta" /\ obs.late[t] /\ pc[t] = "idle" /\ res[t] = "ok"
        /\ obs.spawned[ProcOf(t)] = 1
        /\ Cardinality(LiveLoops(ProcOf(t))) = 1

\* C8 (as stated): a manager has at most one checker thread, in every
\* interleaving of update_tokens_auto calls made by several threads.
C8_Original == \A p \in Procs : Cardinality(LiveLoops(p)) <= 1

\* C9: the update_tokens_auto call that starts the checker returns only
\* after the first update_tokens cycle of the checker has ended (returned or
\* raised), and once that cycle has ended the call does return.
FirstCycleDone(l) ==
    \/ obs.cycles[l] >= 2
    \/ obs.cycles[l] = 1 /\ pc[l] \in {"ck_set", "ck_sleep", "ck_while", "ended"}
C9_NotBefore == \A t \in AppThreads : obs.waited[t] => FirstCycleDone(LoopOf(t))
\* C9: not before the first cycle has ended, and then eventually
C9_FirstCycle ==
    /\ []C9_NotBefore
    /\ \A t \in SchedApp :
          (pc[t] = "uta_wait" /\ FirstCycleDone(LoopOf(t)))
              ~> (pc[t] = "idle" /\ obs.waited[t])
C9_Witness ==
    \E t \in AppThreads :
        /\ obs.waited[t] /\ pc[t] = "idle" /\ res[t] = "ok"
        /\ obs.raised[LoopOf(t)] /\ obs.cycles[LoopOf(t)] = 1

\* C10: a cycle that raises does not end the checker: the thread is never
\* ended; after a cycle that raised the checker goes to sleep, and when the
\* end of that sleep is inside the horizon it begins another cycle.
C10_Running == \A l \in LoopThreads : pc[l] # "ended"
\* C10: never ended, and eventually another cycle
C10_LoopSurvives ==
    /\ []C10_Running
    /\ \A l \in SchedLoops :
          /\ (pc[l] = "ck_set" /\ res[l] # "ok") ~> (pc[l] = "ck_sleep")
          /\ (pc[l] = "ck_sleep" /\ res[l] # "ok" /\ wake[l] <= MaxTime)
                ~> (pc[l] = "ut_start")
C10_Witness ==
    \E l \in LoopThreads :
        obs.raised[l] /\ pc[l] = "ut_start" /\ obs.cycles[l] = 2

\* ============================================================ update_tokens
\* a call of update_tokens by t has ended
CycleDone(t) == top[t] = "ut" /\ pc[t] = "idle" /\ res[t] # "running"
\* the re-authorization that the call made raised
ReauthRaised(t) == obs.cyc[t].art /\ ~obs.cyc[t].uat /\ res[t] # "ok"

\* C11 (as stated): in a call of update_tokens, whatever the refresh token and
\* auto_refresh are, _update_access_token is called if and only if the access
\* token expires in less than the usable time: it is not called when the
\* access token is above the threshold, and it is called when the access
\* token is below the threshold during the whole call.
C11_Original ==
    \A t \in AppThreads :
        CycleDone(t) =>
            /\ obs.cyc[t].uat => obs.cyc[t].alow
            /\ (obs.cyc[t].alow0 /\ (obs.cyc[t].reached => obs.cyc[t].alow))
                  => obs.cyc[t].uat

\* C11 (amended): _update_access_token is called if and only if the call comes
\* to its access check, which it does unless its re-authorization raised, and
\* the access token then expires in less than the usable time.
C11_RefreshIffReachedAndLow ==
    \A t \in AppThreads :
        CycleDone(t) =>
            /\ obs.cyc[t].uat <=> (obs.cyc[t].reached /\ obs.cyc[t].alow)
            /\ ~obs.cyc[t].reached <=> ReauthRaised(t)
C11_Witness ==
    \E t \in AppThreads :
        /\ CycleDone(t) /\ ReauthRaised(t) /\ obs.cyc[t].alow0 /\ ~obs.cyc[t].uat
        /\ AccessExpires(mem[ProcOf(t)]) < TokenUsable

\* C12: in a call of update_tokens, a refresh token that expires in less than
\* 1 s brings three warnings, with or without auto_refresh, and a
\* re-authorization exactly with auto_refresh; a refresh token with 1 s or more
\* brings no warning and no re-authorization.
C12_Warnings ==
    \A t \in AppThreads :
        CycleDone(t) =>
            /\ obs.cyc[t].rlow =>
                  /\ obs.cyc[t].warns = 3
                  /\ obs.cyc[t].art <=> cfg[ProcOf(t)].auto
            /\ ~obs.cyc[t].rlow => obs.cyc[t].warns = 0 /\ ~obs.cyc[t].art
C12_Witness ==
    \E t \in AppThreads :
        /\ CycleDone(t) /\ obs.cyc[t].rlow /\ ~cfg[ProcOf(t)].auto
        /\ obs.cyc[t].warns = 3 /\ ~obs.cyc[t].art

\* ===================================================== _update_access_token
\* the last guarded call of t was _update_access_token, and it has ended
InRefresh(t) == obs.start[t].fn = "uat"
CallEnded(t) == pc[t] = "idle" /\ res[t] # "running"
\* a POST of that call was answered 2xx
Got2xx(t) == obs.xch[t].fn = "uat"

\* C13: one call of _update_access_token makes at most 3 POSTs and none after
\* the first 2xx response; a 2xx response to the 3rd POST comes after exactly
\* two delays and the call returns normally; three non-2xx responses end the
\* call with TokenUpdateError after the 3rd POST.
C13_AtMostThreeAttempts ==
    \A t \in AppThreads :
        InRefresh(t) =>
            /\ obs.posts[t] <= 3
            /\ Got2xx(t) =>
                  /\ obs.posts[t] = Len(obs.delays[t]) + 1
                  /\ pc[t] \in {"wr_open", "wr_dump"} \/ (CallEnded(t) /\ res[t] = "ok")
                  /\ obs.posts[t] = 3 => Len(obs.delays[t]) = 2
            /\ Len(obs.delays[t]) >= 3 =>
                  /\ CallEnded(t) /\ res[t] = "TokenUpdateError"
                  /\ obs.posts[t] = 3 /\ ~Got2xx(t)
            /\ (CallEnded(t) /\ res[t] = "TokenUpdateError") =>
                  Len(obs.delays[t]) = 3
C13_Witness ==
    \E t \in AppThreads :
        /\ InRefresh(t) /\ Got2xx(t) /\ CallEnded(t) /\ res[t] = "ok"
        /\ obs.posts[t] = 3 /\ Len(obs.delays[t]) = 2

\* C14: the delay after the failed attempt i (0, 1, 2) is i * i seconds, so
\* the delays of one call are 0, 1, 4 in this order; there is one delay for
\* each non-2xx response and none after a 2xx response or a transport error.
C14_BackoffSquares ==
    \A t \in AppThreads :
        InRefresh(t) =>
            /\ Len(obs.delays[t]) <= 3
            /\ obs.delays[t] = SubSeq(<<0, 1, 4>>, 1, Len(obs.delays[t]))
            /\ Len(obs.delays[t]) \in {obs.posts[t] - 1, obs.posts[t]}
            /\ (Got2xx(t) \/ (CallEnded(t) /\ res[t] = "NetError")) =>
                  Len(obs.delays[t]) = obs.posts[t] - 1
            /\ pc[t] = "uat_post" => Len(obs.delays[t]) = obs.posts[t]
C14_Witness ==
    \E t \in AppThreads :
        /\ InRefresh(t) /\ CallEnded(t) /\ res[t] = "TokenUpdateError"
        /\ obs.delays[t] = <<0, 1, 4>> /\ now >= 5

\* the write of the last guarded call of t went through
Saved(t) == obs.wrote[t] = "saved"
\* the 2xx response carries a refresh secret other than, or equal to, the one
\* in memory
Rotated(t) ==
    obs.xch[t].resp.rt # NoneTok /\ obs.xch[t].resp.rt # obs.xch[t].before.rt
SameRefresh(t) == obs.xch[t].resp.rt = obs.xch[t].before.rt

\* C15: after a 2xx response to _update_access_token: a refresh secret other
\* than the one in memory becomes the refresh secret in memory, issued at the
\* time of the response, and the file that is then written holds both; with
\* the same refresh secret, the secret and its issue time stay as they were,
\* in memory and in the file that is written.
C15_Rotation ==
    \A t \in AppThreads :
        Got2xx(t) =>
            LET x == obs.xch[t]
                m == mem[ProcOf(t)] IN
            /\ Rotated(t) =>
                  /\ m.rt = x.resp.rt /\ m.ri = x.at
                  /\ Saved(t) => file.td.rt = x.resp.rt /\ file.ri = IsoFormat(x.at)
            /\ SameRefresh(t) =>
                  /\ m.rt = x.before.rt /\ m.ri = x.before.ri
                  /\ Saved(t) =>
                        /\ file.td.rt = x.before.rt
                        /\ file.ri = IsoFormat(x.before.ri)
                        /\ x.fri # NoIso => file.ri = x.fri
C15_Witness ==
    \E t \in AppThreads :
        /\ Got2xx(t) /\ CallEnded(t) /\ Rotated(t) /\ Saved(t)
        /\ obs.xch[t].at # obs.xch[t].before.ri
        /\ file.ri = IsoFormat(obs.xch[t].at) /\ file.td.rt = mem[ProcOf(t)].rt

\* C16: when _update_access_token has returned after a 2xx response, the
\* access token is the one of the response, issued at the time of the
\* response, and its lifetime is the expires_in of the response, or the
\* lifetime it had before when the response has no expires_in.
C16_AccessAdopted ==
    \A t \in AppThreads :
        (Got2xx(t) /\ CallEnded(t)) =>
            LET x == obs.xch[t]
                m == mem[ProcOf(t)] IN
            /\ m.at = x.resp.at
            /\ m.ai = x.at
            /\ m.al = IF x.resp.ei = 0 THEN x.before.al ELSE x.resp.ei
C16_Witness ==
    \E t \in AppThreads :
        /\ Got2xx(t) /\ CallEnded(t) /\ obs.xch[t].resp.ei = 0
        /\ mem[ProcOf(t)].al = 30 /\ obs.xch[t].before.al = 30
        /\ mem[ProcOf(t)].at = obs.xch[t].resp.at

\* ===================================================== acquire_refresh_token
\* C17 (as stated): when acquire_refresh_token has returned after a 2xx
\* response with expires_in = E, the lifetime of the access token is E.
C17_Original ==
    \A t \in AppThreads :
        (obs.xch[t].fn = "art" /\ CallEnded(t) /\ obs.xch[t].resp.ei # 0) =>
            mem[ProcOf(t)].al = obs.xch[t].resp.ei

\* ============================================ _write_tokens_file, then a read
\* C18: when the file is read after a write of _write_tokens_file(payload)
\* that went through, the token_dictionary of the file is the payload, unknown
\* field included, and the access and refresh issue times that the read loads
\* are the ones that were in memory when the file was written.
C18_RoundTrip ==
    [][\A t \in Threads :
          (pc[t] = "dl_enter" /\ pc'[t] # "dl_enter" /\ obs.lastw.ok) =>
              /\ file.fmt = "ok"
              /\ file.td = obs.lastw.payload
              /\ mem'[ProcOf(t)].ai = obs.lastw.ai
              /\ mem'[ProcOf(t)].ri = obs.lastw.ri]_vars
C18_Witness ==
    \E t \in AppThreads :
        /\ obs.chk[t].done /\ obs.wrote[t] = "no" /\ obs.lastw.ok
        /\ obs.lastw.payload.extra = 1 /\ file.td.extra = 1
        /\ obs.lastw.ai = 1 /\ mem[ProcOf(t)].ai = 1
        /\ obs.lastw.ri # obs.lastw.ai

\* ====================================================================== Token
\* C19: an evaluation of Token.expires does not raise; its result is 0 when
\* issued is None, and otherwise the lifetime minus the time since issued,
\* which is negative once that time is longer than the lifetime.
C19_ExpiresTotal ==
    obs.exp.done =>
        /\ ~obs.exp.raised
        /\ obs.exp.issued = NoneTime => obs.exp.value = 0
        /\ obs.exp.issued # NoneTime =>
              /\ obs.exp.value = obs.exp.lifetime - (obs.exp.at - obs.exp.issued)
              /\ obs.exp.at - obs.exp.issued > obs.exp.lifetime => obs.exp.value < 0
C19_Witness ==
    /\ obs.exp.done /\ obs.exp.issued # NoneTime /\ obs.exp.value < 0
    /\ obs.exp.at - obs.exp.issued > obs.exp.lifetime

\* C20: the assignment of a secret sets issued to the time of the assignment;
\* expires evaluated a time t later, with t less than the lifetime L, is
\* L - t.
C20_ExpiresAfterAssign ==
    /\ obs.asg.done =>
          /\ mem[ProcOf(TokenThread)].at = obs.asg.value
          /\ mem[ProcOf(TokenThread)].ai = obs.asg.at
    /\ (obs.asg.done /\ obs.exp.done /\ obs.exp.n > obs.asg.n
        /\ obs.exp.at - obs.asg.at < obs.exp.lifetime) =>
          obs.exp.value = obs.exp.lifetime - (obs.exp.at - obs.asg.at)
C20_Witness ==
    /\ obs.asg.done /\ obs.exp.done /\ obs.exp.n > obs.asg.n
    /\ obs.asg.at = TokenUsable /\ obs.exp.at = 2 * TokenUsable
    /\ obs.exp.lifetime = TokenUsable + 30 /\ obs.exp.value = 30

\* ================================================== errors of the operations
\* C21 (as stated): a call of acquire_refresh_token by a manager without
\* terminal and without webbrowser permission never waits for the lock, makes
\* no POST, and ends with TokenUpdateError, whatever the tokens file holds.
C21_Original ==
    \A t \in AppThreads :
        (top[t] = "art" /\ ~Interactive(ProcOf(t))) =>
            /\ ~(pc[t] = "dl_enter" /\ lock # NoThread)
            /\ obs.posts[t] = 0
            /\ CallEnded(t) => res[t] = "TokenUpdateError"

\* the last guarded call of t was acquire_refresh_token
InAcquire(t) == obs.start[t].fn = "art"

\* C22: a call of acquire_refresh_token makes at most one POST; a non-2xx
\* answer ends the call at once with TokenUpdateError, after exactly one POST,
\* and leaves the tokens in memory, the id token and the tokens file as they
\* were when the POST was made.
C22_AcquireOnce ==
    /\ [](\A t \in AppThreads : InAcquire(t) => obs.posts[t] <= 1)
    /\ [][\A t \in AppThreads :
            (pc[t] = "art_post" /\ pc'[t] # "art_post"
             /\ res'[t] = "TokenUpdateError") =>
                /\ mem' = mem
                /\ file' = file
                /\ obs'.posts[t] = 1
                /\ pc'[t] = "idle"]_vars
C22_Witness ==
    \E t \in AppThreads :
        /\ InAcquire(t) /\ CallEnded(t) /\ res[t] = "TokenUpdateError"
        /\ obs.posts[t] = 1 /\ file.fmt = "ok"
        /\ mem[ProcOf(t)].at = file.td.at /\ mem[ProcOf(t)].id = file.td.id

\* C23 (as stated): when the write of the tokens file after a 2xx response
\* has failed, the operation has not raised, and the tokens of that response
\* stay the tokens in memory of this process until its next 2xx response.
C23_Original ==
    /\ \A t \in AppThreads :
          (CallEnded(t) /\ obs.xch[t].fn # "none" /\ ~Saved(t)) => res[t] = "ok"
    /\ \A p \in Procs :
          obs.unsaved[p].ok =>
              /\ mem[p].at = obs.unsaved[p].at
              /\ mem[p].rt = obs.unsaved[p].rt

\* ================================================================ construction
\* C24 (as stated): a manager whose construction could not load the tokens
\* file has recreated the file empty and starts with both tokens absent
\* (secret None, issued None, expires 0); its first call of update_tokens,
\* with auto_refresh, goes to acquire_refresh_token.
C24_Original ==
    \A t \in AppThreads :
        LET p == ProcOf(t) IN
        obs.recreated[p] =>
            /\ (obs.calls = 0 /\ Constructed(p)) =>
                  /\ file = EmptyFile
                  /\ mem[p].at = NoneTok /\ mem[p].ai = NoneTime
                  /\ mem[p].rt = NoneTok /\ mem[p].ri = NoneTime
                  /\ AccessExpires(mem[p]) = 0 /\ RefreshExpires(mem[p]) = 0
            /\ (obs.calls = 1 /\ CycleDone(t) /\ cfg[p].auto) => obs.cyc[t].art

\* C25 (as stated): no operation of a manager empties a tokens file that holds
\* a well-formed state: a file that a construction recreates empty was not
\* well-formed when it was recreated, also with several managers on the file.
C25_Original == ~obs.emptied

\* ================================================================== DoLocked
\* C26: in a manager without LockFile a guarded function runs directly: its
\* thread never waits for or holds a lock and makes no still-current check,
\* the function body starts with the tokens that were in memory at the call,
\* whatever the file holds, and the body does what it does behind a passed
\* check: a 2xx response is applied to memory and written, and the call
\* returns normally.
C26_Unguarded ==
    \A t \in AppThreads :
        (Kind(t) = "nolock" /\ obs.start[t].fn # "none") =>
            /\ pc[t] # "dl_enter"
            /\ lock = NoThread
            /\ ~obs.chk[t].done
            /\ (pc[t] \in {"uat_post", "art_input", "art_post"}) =>
                  /\ mem[ProcOf(t)].at = obs.start[t].at
                  /\ mem[ProcOf(t)].rt = obs.start[t].rt
            /\ obs.xch[t].fn # "none" =>
                  /\ obs.xch[t].before.at = obs.start[t].at
                  /\ obs.xch[t].before.rt = obs.start[t].rt
                  /\ mem[ProcOf(t)].at = obs.xch[t].resp.at
                  /\ CallEnded(t) => res[t] = "ok"
                  /\ Saved(t) => file.td = obs.xch[t].resp
C26_Witness ==
    \E t \in AppThreads :
        /\ Kind(t) = "nolock" /\ pc[t] = "uat_post" /\ obs.posts[t] = 1
        /\ obs.unsaved[ProcOf(t)].ok
        /\ file.fmt = "ok" /\ file.td.rt # mem[ProcOf(t)].rt

\* ========================================================== _post_oauth_token
\* t has called requests.post and the call has not ended
FirstPostPending(t) == pc[t] \in {"uat_post", "art_post"} /\ obs.posts[t] = 0

\* C27 (as stated): a POST to the token endpoint ends, with an answer or with
\* an error, whatever the endpoint does: the checker thread does not stay in
\* requests.post forever.
C27_Original ==
    \A l \in SchedLoops :
        (FirstPostPending(l) /\ obs.nposts < MaxLoopPosts) ~> ~FirstPostPending(l)

\* ============================================================ the poll loop
\* C28 (as stated): after update_tokens_auto has returned, while the refresh
\* token is valid, no cycle has raised or been delayed, and the checker is not
\* late for its next poll, the access token in memory has not expired: its
\* remaining time is above 0.
C28_Original ==
    \A l \in SchedLoops :
        LET p == ProcOf(l) IN
        (/\ obs.autoDone[p]
         /\ pc[l] = "ck_sleep" /\ now <= wake[l]
         /\ ~obs.raised[l] /\ obs.delays[l] = << >>
         /\ RefreshExpires(mem[p]) >= 1) =>
            AccessExpires(mem[p]) > 0

\* the last call of update_tokens by checker l ended with the retries of
\* _update_access_token exhausted
Exhausted(l) ==
    /\ res[l] = "TokenUpdateError" /\ obs.cyc[l].uat
    /\ Len(obs.delays[l]) = RefreshAttempts

\* C29 (as stated): in the cycle after one that ended with the retries
\* exhausted, an access token that is still below the usable time brings a
\* new call of _update_access_token.
C29_Original ==
    \A l \in SchedLoops :
        (obs.prevx[l] /\ pc[l] = "ck_set" /\ obs.cyc[l].alow0
         /\ (obs.cyc[l].reached => obs.cyc[l].alow)) => obs.cyc[l].uat

\* C29 (amended): a checker whose cycle ended with the retries exhausted
\* sleeps and begins another cycle; when that cycle comes to its access check,
\* which it does unless its re-authorization raised, and the access token is
\* still below the usable time, _update_access_token is called again and
\* starts with attempt 0 of 3.
C29_RetriedNextCycle ==
    /\ \A l \in SchedLoops :
          (Exhausted(l) /\ pc[l] \notin {"ck_sleep", "ck_while"}) ~> pc[l] = "ck_sleep"
    /\ \A l \in SchedLoops :
          (Exhausted(l) /\ pc[l] = "ck_sleep" /\ wake[l] <= MaxTime) ~> pc[l] = "ut_start"
    /\ [](\A l \in SchedLoops :
            /\ (obs.prevx[l] /\ obs.cyc[l].reached /\ obs.cyc[l].alow) => obs.cyc[l].uat
            /\ (obs.prevx[l] /\ ~obs.cyc[l].reached /\ pc[l] = "ck_set") =>
                  ReauthRaised(l)
            /\ pc[l] = "uat_post" =>
                  loc[l].att = obs.posts[l] /\ loc[l].att < RefreshAttempts)
C29_Witness ==
    \E l \in SchedLoops :
        /\ obs.prevx[l] /\ obs.cycles[l] = 2 /\ obs.cyc[l].uat
        /\ Got2xx(l) /\ obs.posts[l] = 1 /\ obs.nposts = RefreshAttempts + 1
        /\ pc[l] = "ck_set"

\* C30: the code that acquire_refresh_token posts is the pieces of the pasted
\* URL after the first 'code=' and before the first '%40' of the whole URL
\* (none when that '%40' does not come later), with '@' appended; a pasted URL
\* without 'code=' or without '%40' ends the call with ValueError and no POST.
C30_CodeCut ==
    \A t \in Threads :
        /\ pc[t] = "art_post" =>
              LET url == loc[t].url
                  code == loc[t].code IN
              \E i, j \in 1..Len(url) :
                  /\ url[i] = "code=" /\ \A k \in 1..(i - 1) : url[k] # "code="
                  /\ url[j] = "%40" /\ \A k \in 1..(j - 1) : url[k] # "%40"
                  /\ Len(code) = (IF j > i THEN j - i - 1 ELSE 0) + 1
                  /\ code[Len(code)] = "@"
                  /\ \A k \in 1..(Len(code) - 1) : code[k] = url[i + k]
        /\ obs.lacks[t] =>
              /\ InAcquire(t) /\ CallEnded(t)
              /\ res[t] = "ValueError" /\ obs.posts[t] = 0
C30_Witness ==
    \E t \in Threads :
        /\ pc[t] = "art_post"
        /\ loc[t].url = <<"u", "code=", "c", "d", "%40", "s", "%40">>
        /\ loc[t].code = <<"c", "d", "@">>

\* C31: a call of _update_access_token that ended with the retries exhausted
\* has left the in-memory pair (both secrets, both issue times, both
\* lifetimes), the id_token and the tokens file as they were at its first POST;
\* so has every refused attempt before that.
C31_ExhaustedFrame ==
    \A t \in Threads :
        (InRefresh(t) /\ obs.att0[t].ok /\ res[t] # "NetError") =>
            /\ mem[ProcOf(t)] = obs.att0[t].mem
            /\ file = obs.att0[t].file
            /\ Len(obs.delays[t]) = obs.posts[t]
            /\ CallEnded(t) =>
                  res[t] = "TokenUpdateError" /\ obs.posts[t] = RefreshAttempts
C31_Witness ==
    \E t \in Threads :
        /\ InRefresh(t) /\ CallEnded(t) /\ res[t] = "TokenUpdateError"
        /\ obs.att0[t].ok /\ obs.posts[t] = RefreshAttempts
        /\ obs.att0[t].mem.at # NoneTok /\ obs.att0[t].file.fmt = "ok"
        /\ obs.calls = MaxCalls

\* C32 (as stated): a load of the tokens file that fails leaves the in-memory
\* pair as it was: a construction whose load failed still holds the pair of a
\* new manager, and a still-current check whose load failed starts the guarded
\* function with the secrets the call found.
C32_Original ==
    \A t \in AppThreads :
        LET p == ProcOf(t) IN
        /\ pc[t] = "init_trunc" => mem[p] = FreshMem(Kind(t))
        /\ (obs.chk[t].done /\ ~obs.chk[t].readok /\ ~obs.ran[t]
            /\ pc[t] \in {"uat_post", "art_input"}) =>
              mem[p].at = obs.start[t].at /\ mem[p].rt = obs.start[t].rt

\* C33 (as stated): a save that failed has left the file as it was: when
\* _write_tokens_file has returned after a swallowed error, a tokens file that
\* was well-formed when the save began is still well-formed.
C33_Original ==
    \A t \in Threads :
        (obs.cut[t] /\ obs.wrote[t] = "trunc" /\ pc[t] # "wr_dump") =>
            file.fmt = "ok"

\* C34 (as stated): when a call of _update_access_token or
\* acquire_refresh_token has returned after a 2xx response and a save that
\* succeeded, loading the file gives the pair in memory: the same access
\* secret, refresh secret and two issue times.
C34_Original ==
    \A t \in AppThreads :
        (CallEnded(t) /\ res[t] = "ok" /\ obs.xch[t].fn # "none" /\ Saved(t)) =>
            LET m == mem[ProcOf(t)]
                r == ReadTokensFile(m, file) IN
            /\ r.ok
            /\ r.mem.at = m.at /\ r.mem.rt = m.rt
            /\ r.mem.ai = m.ai /\ r.mem.ri = m.ri

\* C35 (as stated): the lock is never held while a manager waits for user
\* input: no thread holds it while acquire_refresh_token is at its prompt.
C35_Original ==
    \A t \in Threads :
        (pc[t] = "art_input" /\ Interactive(ProcOf(t))) => lock # t

\* the still-current check of this call found other secrets in the file and
\* skipped the function
Skipped(t) ==
    /\ obs.chk[t].done /\ obs.chk[t].readok
    /\ obs.chk[t].rdiff \/ obs.chk[t].adiff
    /\ ~obs.ran[t] /\ obs.posts[t] = 0 /\ obs.xch[t].fn = "none"

\* C36 (as stated): a call of acquire_refresh_token by the application that
\* returned normally made an authorization-code exchange and installed the
\* pair of the response.
C36_Original ==
    \A t \in AppThreads :
        (InAcquire(t) /\ CallEnded(t) /\ res[t] = "ok") =>
            /\ obs.xch[t].fn = "art" /\ obs.posts[t] = 1
            /\ mem[ProcOf(t)].at = obs.xch[t].resp.at
            /\ mem[ProcOf(t)].rt = obs.xch[t].resp.rt

\* C36 (amended): a call of acquire_refresh_token by the application that
\* returned normally either made one authorization-code exchange and installed
\* the pair of the response, or was skipped by the still-current check, which
\* had found another access or refresh secret in the file; every other call
\* that ended raised TokenUpdateError, ValueError or the transport error, and
\* got no 2xx response.
C36_ExchangedOrSkipped ==
    \A t \in AppThreads :
        (InAcquire(t) /\ CallEnded(t)) =>
            IF res[t] = "ok"
            THEN \/ /\ obs.xch[t].fn = "art" /\ obs.posts[t] = 1
                    /\ mem[ProcOf(t)].at = obs.xch[t].resp.at
                    /\ mem[ProcOf(t)].rt = obs.xch[t].resp.rt
                    /\ ~Skipped(t)
                 \/ Skipped(t)
            ELSE /\ res[t] \in {"TokenUpdateError", "ValueError", "NetError"}
                 /\ obs.xch[t].fn = "none"
                 /\ ~Skipped(t)
C36_Witness ==
    \E t, u \in AppThreads :
        /\ InAcquire(t) /\ CallEnded(t) /\ res[t] = "ok" /\ Skipped(t)
        /\ InAcquire(u) /\ CallEnded(u) /\ res[u] = "ok" /\ obs.xch[u].fn = "art"

\* C37 (as stated): in a call of update_tokens whose acquire_refresh_token got
\* its 2xx response, the access check that follows finds the access token
\* with at least the usable time left, and no refresh is started.
C37_Original ==
    \A t \in AppThreads :
        /\ (pc[t] = "ut_access" /\ obs.xch[t].fn = "art") =>
              ~NeedsRefresh(mem[ProcOf(t)])
        /\ (obs.cyc[t].art /\ obs.cyc[t].reached) => ~obs.cyc[t].uat

\* C38: a transport error of the POST ends _update_access_token on the attempt
\* where it is raised: the step that raises it ends the call with that error,
\* passes no time and changes neither the in-memory pair nor the file; every
\* attempt before it was refused and followed by its delay, none follows it,
\* and the pair and the file are as they were at the first POST.
C38_NotRetried ==
    /\ [](\A t \in Threads :
            (InRefresh(t) /\ res[t] = "NetError") =>
                /\ CallEnded(t) /\ lock # t
                /\ obs.posts[t] \in 1..RefreshAttempts
                /\ Len(obs.delays[t]) = obs.posts[t] - 1
                /\ obs.xch[t].fn = "none"
                /\ obs.att0[t].ok
                /\ mem[ProcOf(t)] = obs.att0[t].mem
                /\ file = obs.att0[t].file)
    /\ [][\A t \in Threads :
            (pc[t] = "uat_post" /\ obs.posts'[t] = obs.posts[t] + 1
             /\ obs.delays'[t] = obs.delays[t] /\ obs.xch'[t].fn = "none") =>
                /\ res'[t] = "NetError" /\ pc'[t] = "idle"
                /\ now' = now /\ mem' = mem /\ file' = file]_vars
C38_Witness ==
    \E t \in Threads :
        /\ InRefresh(t) /\ CallEnded(t) /\ res[t] = "NetError"
        /\ obs.posts[t] = 2 /\ obs.delays[t] = <<Backoff(0)>>
        /\ mem[ProcOf(t)].at # NoneTok /\ file.fmt = "ok"

\* C39 (as stated): update_tokens of api.py decides a cycle as update_tokens
\* of tokens.py does on the same refresh and access times and the same
\* auto_refresh: the same warnings, the same re-authorization and, where no
\* re-authorization comes first, the same refresh.
C39_Original ==
    \A t \in AppThreads :
        Kind(t) = "api" =>
            LET c == obs.cyc[t]
                auto == cfg[ProcOf(t)].auto
                rte == IF c.rlow THEN 0 ELSE TokenUsable
                ate == IF c.alow0 THEN 0 ELSE TokenUsable
                d == FirstStep("locked", auto, rte, ate) IN
            /\ c.warns = Warnings("locked", auto, rte)
            /\ c.art = (d = "art_first")
            /\ d = "second" => c.uat = (ate < TokenUsable)

====
